---------------------------- MODULE Spec2Model ----------------------------
(***************************************************************************)
(* A model of script.py: the Notion-to-Markdown converter.                 *)
(*                                                                         *)
(* Strings are sequences of tokens (a token is a short string such as      *)
(* "**", "\t" or a block identifier); concatenation is \o.  Python dicts   *)
(* read with .get(key, default) are records whose fields hold the default  *)
(* (the empty sequence, FALSE) when the key is absent.                     *)
(*                                                                         *)
(* Four specifications share the variables:                                *)
(*   SpecBlock  applies parse_block_type to one block;                     *)
(*   SpecPage   applies render_page to a block tree;                       *)
(*   SpecFetch  runs query_blocks / query_db against a paged remote;       *)
(*   SpecPool   runs the main program: query_db, then Pool.map.            *)
(***************************************************************************)
EXTENDS Naturals, Sequences, FiniteSets, TLC

VARIABLES
    phase,      \* harness position of SpecBlock / SpecPage: "input", "applied"
    block,      \* SpecBlock: the block handed to parse_block_type
    depth,      \* SpecBlock: its depth argument
    index,      \* SpecBlock: its numbered_list_index argument
    io,         \* outcome of the image download and the asset write
    frag,       \* SpecBlock: what parse_block_type returned
    blocks,     \* SpecPage: the block tree handed to render_page
    page,       \* SpecPage: what render_page returned
    remote,     \* the remote store: collection id -> its pages of items
    hugo,       \* args.hugo
    call,       \* SpecFetch: the running call of query_blocks or query_db
    faults,     \* fetches and downloads that have failed so far
    cpus,       \* SpecPool: os.cpu_count()
    main,       \* SpecPool: the main program: its position and its pages
    tasks,      \* SpecPool: the chunks of Pool.map no worker has taken yet
    workers,    \* SpecPool: the worker processes of the pool
    content_dir,    \* SpecPool: the files of args.content
    static_dir,     \* SpecPool: the files of args.static
    failed      \* SpecPool: the pages a fetch or download failed for, and how

vars == <<phase, block, depth, index, io, frag, blocks, page, remote, hugo, call,
          faults, cpus, main, tasks, workers, content_dir, static_dir, failed>>
renderVars == <<phase, block, depth, index, io, frag, blocks, page>>
fetchVars == <<remote, hugo, call, faults>>
poolVars == <<cpus, main, tasks, workers, content_dir, static_dir, failed>>

\* ------------------------------------------------------------------ bounds
MaxDepth == 2       \* depths 0..MaxDepth are handed to parse_block_type
MaxIndex == 2       \* counters 0..MaxIndex are handed to parse_block_type
MaxRuns == 3        \* rich-text runs of one block
MaxSibs == 4        \* blocks of the top-level sibling list
MaxKids == 2        \* blocks of a child list
MaxItems == 3       \* blocks of the remote tree of one page
MaxPages == 2       \* pages a remote collection is split into
MaxListed == 3      \* pages the database lists
MaxFaults == 1      \* failing fetches in one run
MaxCpus == 3        \* os.cpu_count() is 1..MaxCpus
PoolPages == 5      \* pages the database lists in SpecPool

\* ------------------------------------------------------------- sequences
Max(S) == CHOOSE m \in S : \A n \in S : n <= m
Min(S) == CHOOSE m \in S : \A n \in S : m <= n

RECURSIVE Flatten(_)
Flatten(ss) == IF ss = <<>> THEN <<>> ELSE Head(ss) \o Flatten(Tail(ss))

Reverse(s) == [i \in 1..Len(s) |-> s[Len(s) + 1 - i]]

\* s occurs in t as a contiguous subsequence
IsInfix(s, t) ==
    \E k \in 0..(Len(t) - Len(s)) : SubSeq(t, k + 1, k + Len(s)) = s

\* str.split(sep)[-1] and str.split(sep)[0] on token sequences
SplitLast(s, sep) ==
    LET at == {i \in 1..Len(s) : s[i] = sep}
    IN  IF at = {} THEN s ELSE SubSeq(s, Max(at) + 1, Len(s))

SplitFirst(s, sep) ==
    LET at == {i \in 1..Len(s) : s[i] = sep}
    IN  IF at = {} THEN s ELSE SubSeq(s, 1, Min(at) - 1)

\* os.path.join(a, b)
path_join(a, b) ==
    IF b # <<>> /\ b[1] = "/" THEN b
    ELSE IF a = <<>> \/ a[Len(a)] = "/" THEN a \o b
    ELSE a \o <<"/">> \o b

\* The lexer admits no backquote in a string: these two tokens stand for the
\* backquote and for the fence of three backquotes.
BACKTICK == "<backquote>"
FENCE == "<3 backquotes>"

\* ------------------------------------------------------------- arguments
args_url == <<"https:", "/", "/", "cdn", "/", "static">>

\* A result of a call that may raise and may write asset files.
Returned(text, assets) == [text |-> text, raised |-> FALSE, assets |-> assets]
Raised(assets) == [text |-> <<>>, raised |-> TRUE, assets |-> assets]

\* --------------------------------------------------------------- get_image
get_image(b, net) ==
    LET url == b.content.file.url
        ext == SplitLast(SplitFirst(SplitLast(url, "/"), "?"), ".")
        filename == <<b.id, ".">> \o ext
        image_data == IF net.dl = "ok" THEN "image" ELSE "errorbody"
        image_path == path_join(args_url, filename)
    IN  IF url = <<>> THEN Returned(<<>>, {})
        ELSE IF net.dl = "raise" THEN Raised({})
        ELSE IF net.fs = "raise" THEN Raised({})
        ELSE Returned(<<"![](">> \o image_path \o <<"#center)">>,
                      {[name |-> filename, data |-> image_data]})

\* -------------------------------------------------------- parse_annotations
parse_annotations_bold_first(annotations, text) ==
    LET t1 == IF annotations.bold THEN <<"**">> \o text \o <<"**">> ELSE text
        t2 == IF annotations.code THEN <<BACKTICK>> \o t1 \o <<BACKTICK>> ELSE t1
        t3 == IF annotations.italic THEN <<"*">> \o t2 \o <<"*">> ELSE t2
        t4 == IF annotations.strikethrough THEN <<"~~">> \o t3 \o <<"~~">> ELSE t3
        t5 == IF annotations.underline THEN <<"<u>">> \o t4 \o <<"</u>">> ELSE t4
        t6 == IF \E i \in 1..Len(annotations.color) : annotations.color[i] = "background"
              THEN <<"<mark>">> \o t5 \o <<"</mark>">> ELSE t5
    IN  t6

parse_annotations(annotations, text) ==
    LET t1 == IF annotations.code THEN <<BACKTICK>> \o text \o <<BACKTICK>> ELSE text
        t2 == IF annotations.bold THEN <<"**">> \o t1 \o <<"**">> ELSE t1
        t3 == IF annotations.italic THEN <<"*">> \o t2 \o <<"*">> ELSE t2
        t4 == IF annotations.strikethrough THEN <<"~~">> \o t3 \o <<"~~">> ELSE t3
        t5 == IF annotations.underline THEN <<"<u>">> \o t4 \o <<"</u>">> ELSE t4
        t6 == IF \E i \in 1..Len(annotations.color) : annotations.color[i] = "background"
              THEN <<"<mark>">> \o t5 \o <<"</mark>">> ELSE t5
    IN  t6

\* One pass of the loop over rich_texts (lines 48-51).
compose_run(text_data) ==
    LET text == parse_annotations(text_data.annotations, text_data.plain_text)
    IN  IF text_data.href # <<>>
        THEN <<"[">> \o text \o <<"](">> \o text_data.href \o <<")">>
        ELSE text

RECURSIVE compose_rich_text(_, _, _)
compose_rich_text(rich_texts, i, result) ==
    IF i > Len(rich_texts) THEN result
    ELSE compose_rich_text(rich_texts, i + 1, result \o compose_run(rich_texts[i]))

Tabs(d) == [i \in 1..d |-> "\t"]

\* The type-specific template (lines 54-72).
apply_template(b, numbered_list_index, result) ==
    CASE b.type = "heading_1" -> <<"# ">> \o result
      [] b.type = "heading_2" -> <<"## ">> \o result
      [] b.type = "heading_3" -> <<"### ">> \o result
      [] b.type = "code" ->
            <<FENCE>> \o b.content.language \o <<"\n">> \o result \o <<"\n", FENCE>>
      [] b.type = "bulleted_list_item" -> <<"- ">> \o result
      [] b.type = "numbered_list_item" ->
            <<ToString(numbered_list_index), ". ">> \o result
      [] b.type = "to_do" ->
            IF b.content.checked THEN <<"- [x] ">> \o result
            ELSE <<"- [ ] ">> \o result
      [] b.type = "quote" -> <<"> ">> \o result
      [] OTHER -> result

\* --------------------------------------------------------- parse_block_type
parse_block_type(b, numbered_list_index, d, net) ==
    IF b.type = "divider" THEN Returned(<<"---">>, {})
    ELSE IF b.type = "image" THEN get_image(b, net)
    ELSE LET result == compose_rich_text(b.content.rich_text, 1, <<>>)
         IN  IF result # <<>>
             THEN Returned(Tabs(d) \o apply_template(b, numbered_list_index, result), {})
             ELSE Returned(result, {})

\* -------------------------------------------------------------- render_page
\* The counter update at the head of the loop body (lines 81-84).
next_index_noreset(b, numbered_list_index) ==
    IF b.type = "numbered_list_item" THEN numbered_list_index + 1
    ELSE numbered_list_index

next_index(b, numbered_list_index) ==
    IF b.type = "numbered_list_item" THEN numbered_list_index + 1 ELSE 0

\* if block.get("children") (line 88), reached with the fragment text of the
\* block whether it is empty or not.
renders_children_if_text(b, text) == text # <<>> /\ b.children # <<>>

renders_children(b, text) == b.children # <<>>

\* page += text (line 87) and page += render_page(children, depth + 1)
\* (line 89), given the page so far.
append_children(sofar, text, children_page) ==
    sofar \o text \o children_page

RECURSIVE render_page(_, _, _), render_loop(_, _, _, _, _, _)
\* One iteration of the for loop for blocks[i]; acc is what the call has
\* produced so far.  An exception raised below ends the loop.
render_loop(bs, i, numbered_list_index, acc, d, net) ==
    IF i > Len(bs) \/ acc.raised THEN acc
    ELSE
      LET b == bs[i]
          n == next_index(b, numbered_list_index)
          r == parse_block_type(b, n, d, net)
          text == IF r.text # <<>> THEN <<"\n", "\n">> \o r.text ELSE <<>>
          sub == IF ~r.raised /\ renders_children(b, text)
                 THEN render_page(b.children, d + 1, net)
                 ELSE Returned(<<>>, {})
          acc2 == [text |-> append_children(acc.text, text, sub.text),
                   raised |-> r.raised \/ sub.raised,
                   assets |-> acc.assets \cup r.assets \cup sub.assets]
      IN  render_loop(bs, i + 1, n, acc2, d, net)

render_page(bs, d, net) == render_loop(bs, 1, 0, Returned(<<>>, {}), d, net)

\* ------------------------------------------------------------------ inputs
BlockTypes == {"divider", "image", "heading_1", "heading_2", "heading_3", "code",
               "bulleted_list_item", "numbered_list_item", "to_do", "quote",
               "paragraph"}

Colors == {<<"default">>, <<"red", "_", "background">>}
Hrefs == {<<>>, <<"http://x">>}
Annotations == [code : BOOLEAN, bold : BOOLEAN, italic : BOOLEAN,
                strikethrough : BOOLEAN, underline : BOOLEAN, color : Colors]
NoAnnotations == [code |-> FALSE, bold |-> FALSE, italic |-> FALSE,
                  strikethrough |-> FALSE, underline |-> FALSE,
                  color |-> <<"default">>]
Run(text, ann, href) == [plain_text |-> text, annotations |-> ann, href |-> href]

\* Every combination of flags and href for the first run of a block ...
FirstRuns == {Run(<<"a">>, ann, h) : ann \in Annotations, h \in Hrefs}
\* ... followed by runs of these three kinds.
OtherRuns == {Run(<<"b">>, NoAnnotations, <<>>),
              Run(<<"c">>, [NoAnnotations EXCEPT !.bold = TRUE, !.code = TRUE],
                  <<"http://y">>),
              Run(<<>>, NoAnnotations, <<>>)}

FileUrl == <<"https:", "/", "/", "s3", "/", "img", ".", "v2", ".", "png", "?",
             "sig", "=", "a", ".", "b">>
ExternalUrl == <<"https:", "/", "/", "ext", "/", "pic", ".", "jpg">>

Content(rich_text, checked, language, file_url, external_url) ==
    [rich_text |-> rich_text, checked |-> checked, language |-> language,
     file |-> [url |-> file_url], external |-> [url |-> external_url]]

Block(id, type, content, children) ==
    [id |-> id, type |-> type, content |-> content, children |-> children]

TextContent(rich_text) == Content(rich_text, FALSE, <<>>, <<>>, <<>>)

NoIO == [dl |-> "ok", fs |-> "ok"]
IOs == [dl : {"ok", "status", "raise"}, fs : {"ok", "raise"}]

\* Text blocks with every annotation combination (depth 0, no template).
AnnotatedBlocks ==
    {Block("b1", "paragraph", TextContent(<<r>> \o tl), <<>>) :
        r \in FirstRuns,
        tl \in UNION {[1..n -> OtherRuns] : n \in 0..(MaxRuns - 1)}}

\* Every type, with and without text.
TypedBlocks ==
    {Block("b1", t, Content(rt, c, l, <<>>, <<>>), <<>>) :
        t \in BlockTypes \ {"image"},
        rt \in {<<>>, <<Run(<<"a">>, NoAnnotations, <<>>)>>},
        c \in BOOLEAN, l \in {<<>>, <<"py">>}}

\* Image blocks with either, both or no hosted reference.
ImageBlocks ==
    {Block("b1", "image", Content(<<>>, FALSE, <<>>, f, e), <<>>) :
        f \in {<<>>, FileUrl}, e \in {<<>>, ExternalUrl}}

NoBlock == Block("b0", "paragraph", TextContent(<<>>), <<>>)
NoResult == Returned(<<>>, {})

\* ------------------------------------------------------------ the remote
\* A collection (the children of a page or block, or the database listing) is
\* a sequence of pages of items.  A cursor is the number of the page it opens;
\* 0 is None, the absent cursor.
Serve(rem, coll, cursor) ==
    LET pages == rem[coll]
        k == IF cursor = 0 THEN 1 ELSE cursor
    IN  [results |-> pages[k],
         has_more |-> k < Len(pages),
         next_cursor |-> IF k < Len(pages) THEN k + 1 ELSE 0]

\* The JSON body of a response with a non-success status: an error object with
\* no "results" and no "has_more", read with .get and its defaults.
ErrorBody == [results |-> <<>>, has_more |-> FALSE, next_cursor |-> 0]

Item(id, type, has_children, payload) ==
    [id |-> id, type |-> type, has_children |-> has_children, payload |-> payload]

\* --------------------------------------------------------- parse_frontmatter
parse_frontmatter(properties) ==
    <<"{title:", IF properties.Title = "" THEN "Untitled" ELSE properties.Title,
      "date:", properties.Date, "tags:", properties.Tags,
      "categories:", properties.Categories, "url:", properties.URL,
      "published:", IF properties.Published THEN "true" ELSE "false", "}">>

\* result[key] = val on a dict, kept as the sequence of its entries in
\* insertion order.
DictSet(d, key, val) ==
    IF \E i \in 1..Len(d) : d[i].key = key
    THEN [i \in 1..Len(d) |-> IF d[i].key = key THEN [key |-> key, val |-> val]
                              ELSE d[i]]
    ELSE Append(d, [key |-> key, val |-> val])

\* ------------------------------------------------ query_blocks and query_db
\* A call is a stack of frames.  A frame is at "fetch" (about to send its
\* request), at "loop" (in the for loop, at results[i]), at "more" (after the
\* loop), at "child" (in query_blocks(item["id"]) of line 100) or at "tail"
\* (in the query_blocks of line 108).
Frame(fn, id, start_cursor, result) ==
    [fn |-> fn, id |-> id, start_cursor |-> start_cursor, result |-> result,
     response |-> ErrorBody, i |-> 1, pc |-> "fetch"]

Idle == [status |-> "idle", stack |-> <<>>, ret |-> <<>>, log |-> <<>>]

StartCall(fn, id) ==
    [status |-> "run", stack |-> <<Frame(fn, id, 0, <<>>)>>, ret |-> <<>>,
     log |-> <<>>]

Top(t) == t.stack[Len(t.stack)]
SetTop(t, f) == [t EXCEPT !.stack[Len(t.stack)] = f]

\* result = blocks if blocks else [] (line 94)
initial_result_dropped(blks) == <<>>

initial_result(blks) == IF blks # <<>> THEN blks ELSE <<>>

\* The cursor the request carries: query_blocks appends start_cursor to the URL
\* when it is truthy (lines 96-97); query_db posts no data first (line 127)
\* and {"start_cursor": next_cursor} in its loop (lines 134-135).
request_cursor(f) == IF f.start_cursor # 0 THEN f.start_cursor ELSE 0

\* response.get("has_more") (lines 107, 133)
has_more_capped(response) == response.has_more /\ response.next_cursor < 2

has_more(response) == response.has_more

\* requests.get(...).json() / requests.post(...).json() (lines 98, 127, 135):
\* the request is answered ("ok"), answered with a non-success status whose
\* body is an error object ("status"), or raises ("raise"); nothing in the
\* call stack catches the exception.
DoFetch(t, rem, outcome) ==
    LET f == Top(t)
        cursor == request_cursor(f)
        response == IF outcome = "ok" /\ (cursor = 0 \/ cursor <= Len(rem[f.id]))
                    THEN Serve(rem, f.id, cursor) ELSE ErrorBody
        entry == [fn |-> f.fn, coll |-> f.id, cursor |-> cursor, outcome |-> outcome,
                  has_more |-> response.has_more,
                  next_cursor |-> response.next_cursor,
                  results |-> [k \in 1..Len(response.results) |->
                                 response.results[k].id]]
    IN  IF outcome = "raise"
        THEN [status |-> "raised", stack |-> <<>>, ret |-> <<>>,
              log |-> Append(t.log, entry)]
        ELSE [SetTop(t, [f EXCEPT !.response = response, !.i = 1, !.pc = "loop"])
                EXCEPT !.log = Append(t.log, entry)]

\* The block query_blocks appends for an item (lines 101-106).
MakeBlock(item, children) == Block(item.id, item.type, item.payload, children)

\* The dict entry query_db stores for an item (lines 129-132, 137-140).
db_entry(item, hugo_on) ==
    IF hugo_on /\ item.payload.Published THEN parse_frontmatter(item.payload)
    ELSE <<>>

\* A frame returns value: the frame below takes it.  Below a "tail" frame the
\* value is returned again (lines 108-109); a "child" frame appends the block
\* of its item (lines 100-106) and goes on with its loop.
RECURSIVE Unwind(_, _)
Unwind(t, value) ==
    LET rest == SubSeq(t.stack, 1, Len(t.stack) - 1)
        t1 == [t EXCEPT !.stack = rest]
    IN  IF rest = <<>>
        THEN [t1 EXCEPT !.status = "done", !.ret = value]
        ELSE LET g == Top(t1)
             IN  IF g.pc = "tail"
                 THEN Unwind(SetTop(t1, [g EXCEPT !.result = value]), value)
                 ELSE SetTop(t1, [g EXCEPT
                        !.result = Append(g.result,
                                          MakeBlock(g.response.results[g.i], value)),
                        !.i = g.i + 1,
                        !.pc = "loop"])

\* One pass of the for loop over response["results"], or its end.
DoLoop(t, hugo_on) ==
    LET f == Top(t)
        item == f.response.results[f.i]
    IN  IF f.i > Len(f.response.results) THEN SetTop(t, [f EXCEPT !.pc = "more"])
        ELSE IF f.fn = "query_db"
        THEN SetTop(t, [f EXCEPT
                !.result = DictSet(f.result, item.id, db_entry(item, hugo_on)),
                !.i = f.i + 1])
        ELSE IF item.has_children
        THEN [t EXCEPT !.stack = SubSeq(t.stack, 1, Len(t.stack) - 1)
                  \o <<[f EXCEPT !.pc = "child"],
                       Frame("query_blocks", item.id, 0, initial_result(<<>>))>>]
        ELSE SetTop(t, [f EXCEPT
                !.result = Append(f.result, MakeBlock(item, <<>>)),
                !.i = f.i + 1])

\* After the loop: follow the cursor while has_more, else return the result.
DoMore(t) ==
    LET f == Top(t)
    IN  IF has_more(f.response)
        THEN IF f.fn = "query_db"
             THEN SetTop(t, [f EXCEPT !.start_cursor = f.response.next_cursor,
                                      !.pc = "fetch"])
             ELSE [t EXCEPT !.stack = SubSeq(t.stack, 1, Len(t.stack) - 1)
                      \o <<[f EXCEPT !.pc = "tail"],
                           Frame("query_blocks", f.id, f.response.next_cursor,
                                 initial_result(f.result))>>]
        ELSE Unwind(t, f.result)

\* ------------------------------------------------------- remotes of SpecFetch
RootPage == "p1"
Database == "db"
ItemId(i) == "b" \o ToString(i)

RECURSIVE Sum(_)
Sum(s) == IF s = <<>> THEN 0 ELSE Head(s) + Sum(Tail(s))

\* The ways to split n items into 1..MaxPages pages, as page lengths.
Splits(n) ==
    {lens \in UNION {[1..pn -> 0..n] : pn \in 1..MaxPages} : Sum(lens) = n}

\* The sequence s cut into pages of the lengths lens.
Paged(s, lens) ==
    [k \in 1..Len(lens) |->
        SubSeq(s, Sum(SubSeq(lens, 1, k - 1)) + 1, Sum(SubSeq(lens, 1, k)))]

\* The items whose parent is c, in order (0 is the page itself).
KidsOf(par, c) == SelectSeq([i \in 1..Len(par) |-> i], LAMBDA i : par[i] = c)

CollId(c) == IF c = 0 THEN RootPage ELSE ItemId(c)

BlockItem(par, i) ==
    Item(ItemId(i), "paragraph", KidsOf(par, i) # <<>>,
         TextContent(<<Run(<<ItemId(i)>>, NoAnnotations, <<>>)>>))

\* One remote for the forest par and the split sp[c] of each collection c.
BlockRemote(par, sp) ==
    [id \in {CollId(c) : c \in DOMAIN sp} |->
        LET c == CHOOSE c \in DOMAIN sp : CollId(c) = id
            kids == KidsOf(par, c)
        IN  Paged([k \in 1..Len(kids) |-> BlockItem(par, kids[k])], sp[c])]

\* Every choice of a split for each of the collections cs.
RECURSIVE SplitChoices(_, _)
SplitChoices(par, cs) ==
    IF cs = {} THEN {<<>>}
    ELSE LET c == CHOOSE c \in cs : TRUE
         IN  {s @@ (c :> lens) : s \in SplitChoices(par, cs \ {c}),
                                 lens \in Splits(Len(KidsOf(par, c)))}

Forests(n) == {par \in [1..n -> 0..n] : \A i \in 1..n : par[i] < i}

Properties(title, published) ==
    [Title |-> title, Date |-> "", Tags |-> "[]", Categories |-> "[]", URL |-> "",
     Published |-> published]

PageId(i) == "p" \o ToString(i)
PageItem(i, published) ==
    Item(PageId(i), "page", FALSE,
         Properties(IF i = 1 THEN "" ELSE PageId(i), published))

NoRemote == [id \in {RootPage, Database} |-> <<<<>>>>]

\* --------------------------------------------------------------- SpecFetch
RenderUnused ==
    /\ phase = "input"
    /\ block = NoBlock
    /\ depth = 0
    /\ index = 0
    /\ io = NoIO
    /\ frag = NoResult
    /\ blocks = <<>>
    /\ page = NoResult

PoolUnused ==
    /\ cpus = 1
    /\ main = [pc |-> "unused", pages |-> <<>>]
    /\ tasks = <<>>
    /\ workers = <<>>
    /\ content_dir = {}
    /\ static_dir = {}
    /\ failed = {}

FetchUnused ==
    /\ remote = NoRemote
    /\ hugo = FALSE
    /\ call = Idle
    /\ faults = 0
    /\ PoolUnused

InitFetch ==
    /\ RenderUnused
    /\ PoolUnused
    /\ call = Idle
    /\ faults = 0
    /\ \/ /\ hugo = FALSE
          /\ \E n \in 0..MaxItems : \E par \in Forests(n) :
               \E sp \in SplitChoices(par, {0} \cup {par[i] : i \in 1..n}) :
                 remote = BlockRemote(par, sp) @@ NoRemote
       \/ /\ hugo \in BOOLEAN
          /\ \E n \in 0..MaxListed : \E lens \in Splits(n) :
               \E pub \in [1..n -> BOOLEAN] :
               remote = (Database :>
                            Paged([i \in 1..n |-> PageItem(i, pub[i])], lens))
                        @@ NoRemote

CallQueryBlocks ==
    /\ call.status = "idle"
    /\ call' = StartCall("query_blocks", RootPage)
    /\ UNCHANGED <<remote, hugo, faults>>
    /\ UNCHANGED renderVars
    /\ UNCHANGED poolVars

CallQueryDb ==
    /\ call.status = "idle"
    /\ call' = StartCall("query_db", Database)
    /\ UNCHANGED <<remote, hugo, faults>>
    /\ UNCHANGED renderVars
    /\ UNCHANGED poolVars

Fetch ==
    /\ call.status = "run"
    /\ Top(call).pc = "fetch"
    /\ \E outcome \in {"ok", "status", "raise"} :
         /\ outcome # "ok" => faults < MaxFaults
         /\ faults' = IF outcome = "ok" THEN faults ELSE faults + 1
         /\ call' = DoFetch(call, remote, outcome)
    /\ UNCHANGED <<remote, hugo>>
    /\ UNCHANGED renderVars
    /\ UNCHANGED poolVars

Loop ==
    /\ call.status = "run"
    /\ Top(call).pc = "loop"
    /\ call' = DoLoop(call, hugo)
    /\ UNCHANGED <<remote, hugo, faults>>
    /\ UNCHANGED renderVars
    /\ UNCHANGED poolVars

More ==
    /\ call.status = "run"
    /\ Top(call).pc = "more"
    /\ call' = DoMore(call)
    /\ UNCHANGED <<remote, hugo, faults>>
    /\ UNCHANGED renderVars
    /\ UNCHANGED poolVars

NextFetch == CallQueryBlocks \/ CallQueryDb \/ Fetch \/ Loop \/ More

SpecFetch == InitFetch /\ [][NextFetch]_vars

\* The tree the remote holds under a collection: the items of its pages in
\* order, each with the tree under it when it has children.
RECURSIVE RemoteTree(_, _)
RemoteTree(rem, coll) ==
    LET items == Flatten(rem[coll])
    IN  [k \in 1..Len(items) |->
            MakeBlock(items[k],
                      IF items[k].has_children THEN RemoteTree(rem, items[k].id)
                      ELSE <<>>)]

\* The fetches of one collection, in the order they were sent.
FetchesOf(coll) == SelectSeq(call.log, LAMBDA e : e.coll = coll)

Called(fn) == call.log # <<>> /\ call.log[1].fn = fn

\* C1: query_blocks returns the items of the pages it fetched, concatenated in
\* fetch order with none dropped, duplicated or reordered, also behind an
\* empty page and around the nested fetches of items with children; when no
\* fetch fails these are all the items of all the pages of the collection.
C1_PagesConcatenated ==
    (call.status = "done" /\ Called("query_blocks")) =>
        /\ [k \in 1..Len(call.ret) |-> call.ret[k].id] =
             Flatten(LET fs == FetchesOf(RootPage)
                     IN  [k \in 1..Len(fs) |-> fs[k].results])
        /\ faults = 0 => call.ret = RemoteTree(remote, RootPage)

C1_Witness ==
    /\ call.status = "done"
    /\ faults = 0
    /\ Len(remote[RootPage]) = 2
    /\ [k \in 1..Len(call.log) |-> <<call.log[k].coll, call.log[k].cursor>>] =
         <<<<"p1", 0>>, <<"b1", 0>>, <<"b1", 2>>, <<"p1", 2>>>>
    /\ remote["b1"][1] = <<>>
    /\ [k \in 1..Len(call.ret) |-> call.ret[k].id] = <<"b1", "b3">>
    /\ [k \in 1..Len(call.ret[1].children) |-> call.ret[1].children[k].id] = <<"b2">>

\* C5: when a fetch of the block collection fails, a response with a
\* non-success status included, query_blocks does not return: it hands its
\* caller no list.
C5_FailurePropagates ==
    (call.status = "done" /\ Called("query_blocks")) =>
        \A k \in 1..Len(call.log) : call.log[k].outcome = "ok"

\* The part of C5 the code keeps: a fetch that raises ends the call.
RaisedFetchEndsCall ==
    (\E k \in 1..Len(call.log) : call.log[k].outcome = "raise") =>
        call.status = "raised"

\* C10: the first fetch of a collection carries no cursor; a further fetch of
\* it is sent if and only if the last response had has_more true, and carries
\* that response's next_cursor; the call goes on until it returns, which it
\* does after as many fetches as the collection has pages.
C10_CursorFollowing ==
    /\ \A coll \in {call.log[k].coll : k \in 1..Len(call.log)} :
         LET fs == FetchesOf(coll)
         IN  /\ fs[1].cursor = 0
             /\ \A k \in 2..Len(fs) :
                  fs[k - 1].has_more /\ fs[k].cursor = fs[k - 1].next_cursor
             /\ call.status = "done" => ~fs[Len(fs)].has_more
             /\ (call.status = "done" /\ faults = 0) =>
                  Len(fs) = Len(remote[coll])
    /\ call.status = "run" => ENABLED NextFetch

C10_Witness ==
    /\ call.status = "done"
    /\ faults = 0
    /\ Called("query_db")
    /\ Len(remote[Database]) = 2
    /\ [k \in 1..Len(call.log) |-> call.log[k].cursor] = <<0, 2>>
    /\ [k \in 1..Len(call.ret) |-> call.ret[k].key] = <<"p1", "p2", "p3">>

\* --------------------------------------------------------------- SpecBlock
InitBlock ==
    /\ phase = "input"
    /\ \/ block \in AnnotatedBlocks /\ depth = 0 /\ index = 0 /\ io = NoIO
       \/ block \in TypedBlocks /\ depth \in 0..MaxDepth /\ index \in 0..MaxIndex
            /\ io = NoIO
       \/ block \in ImageBlocks /\ depth \in 0..MaxDepth /\ index = 0 /\ io \in IOs
    /\ frag = NoResult
    /\ blocks = <<>>
    /\ page = NoResult
    /\ FetchUnused

ApplyParseBlockType ==
    /\ phase = "input"
    /\ phase' = "applied"
    /\ frag' = parse_block_type(block, index, depth, io)
    /\ UNCHANGED <<block, depth, index, io, blocks, page>>
    /\ UNCHANGED fetchVars
    /\ UNCHANGED poolVars

NextBlock == ApplyParseBlockType

SpecBlock == InitBlock /\ [][NextBlock]_vars


\* C6: for every block type (divider and image included) and every depth d, the
\* non-empty fragment parse_block_type returns at depth d is its depth-0
\* fragment prefixed with exactly d tab characters.
C6_IndentEveryType ==
    (phase = "applied" /\ frag.text # <<>>) =>
        frag.text = Tabs(depth) \o parse_block_type(block, index, 0, io).text

\* The part of C6 the code keeps: every type but divider and image.
IndentTextTypes ==
    (phase = "applied" /\ frag.text # <<>> /\ block.type \notin {"divider", "image"}) =>
        frag.text = Tabs(depth) \o parse_block_type(block, index, 0, io).text

\* The wrappers of a run, outermost first, and their opening and closing tokens.
WrapperOrder ==
    <<"link", "mark", "underline", "strikethrough", "italic", "bold", "code">>

HasWrapper(r, w) ==
    CASE w = "link" -> r.href # <<>>
      [] w = "mark" -> r.annotations.color = <<"red", "_", "background">>
      [] w = "underline" -> r.annotations.underline
      [] w = "strikethrough" -> r.annotations.strikethrough
      [] w = "italic" -> r.annotations.italic
      [] w = "bold" -> r.annotations.bold
      [] w = "code" -> r.annotations.code

OpenToken(r, w) ==
    CASE w = "link" -> <<"[">>
      [] w = "mark" -> <<"<mark>">>
      [] w = "underline" -> <<"<u>">>
      [] w = "strikethrough" -> <<"~~">>
      [] w = "italic" -> <<"*">>
      [] w = "bold" -> <<"**">>
      [] w = "code" -> <<BACKTICK>>

CloseToken(r, w) ==
    CASE w = "link" -> <<"](">> \o r.href \o <<")">>
      [] w = "mark" -> <<"</mark>">>
      [] w = "underline" -> <<"</u>">>
      [] w = "strikethrough" -> <<"~~">>
      [] w = "italic" -> <<"*">>
      [] w = "bold" -> <<"**">>
      [] w = "code" -> <<BACKTICK>>

NestedRun(r) ==
    LET Has(w) == HasWrapper(r, w)
        ws == SelectSeq(WrapperOrder, Has)
        sw == Reverse(ws)
    IN  Flatten([i \in 1..Len(ws) |-> OpenToken(r, ws[i])])
        \o r.plain_text
        \o Flatten([i \in 1..Len(sw) |-> CloseToken(r, sw[i])])

\* C7: every run is wrapped, from the inside out, by code span, bold, italic,
\* strikethrough, underline, highlight mark and last the link, each wrapper
\* once when its flag is set and not at all otherwise; the text of a block is
\* the runs' outputs concatenated in order with no separator.
C7_AnnotationNesting ==
    (phase = "applied" /\ block.type = "paragraph") =>
        LET rt == block.content.rich_text
            body == Flatten([i \in 1..Len(rt) |-> NestedRun(rt[i])])
        IN  frag.text = IF body = <<>> THEN <<>> ELSE Tabs(depth) \o body

C7_Witness ==
    /\ phase = "applied"
    /\ block.type = "paragraph"
    /\ Len(block.content.rich_text) = 3
    /\ LET r == block.content.rich_text[1]
       IN  /\ \A w \in {"link", "mark", "underline", "strikethrough", "italic",
                        "bold", "code"} : HasWrapper(r, w)
           /\ SubSeq(frag.text, 1, 15) =
                <<"[", "<mark>", "<u>", "~~", "*", "**", BACKTICK, "a", BACKTICK,
                  "**", "*", "~~", "</u>", "</mark>", "](">>
    /\ frag.text[Len(frag.text)] = "b"

\* The source URL C8 says get_image resolves, and the extension of each URL.
ResolvedUrl(b) ==
    IF b.content.file.url # <<>> THEN b.content.file.url ELSE b.content.external.url

ExtensionOf(url) == IF url = FileUrl THEN <<"png">> ELSE <<"jpg">>

\* C8: get_image takes the URL of the internally-hosted reference, or else of
\* the externally-hosted one; when the download and the write succeed it
\* returns the Markdown reference of that URL's file, and it returns the empty
\* fragment only when neither reference carries a URL.
C8_ImageUrlResolution ==
    (phase = "applied" /\ block.type = "image") =>
        LET url == ResolvedUrl(block)
            filename == <<block.id, ".">> \o ExtensionOf(url)
        IN  /\ (url # <<>> /\ io = NoIO) =>
                /\ frag.text = <<"![](">> \o args_url \o <<"/">> \o filename
                                \o <<"#center)">>
                /\ frag.assets = {[name |-> filename, data |-> "image"]}
            /\ (~frag.raised /\ frag.text = <<>>) =>
                (url = <<>> /\ frag.assets = {})

\* The part of C8 the code keeps: the internally-hosted reference alone.
ImageFileUrlOnly ==
    (phase = "applied" /\ block.type = "image") =>
        LET url == block.content.file.url
            filename == <<block.id, ".">> \o ExtensionOf(url)
        IN  /\ (url # <<>> /\ io = NoIO) =>
                /\ frag.text = <<"![](">> \o args_url \o <<"/">> \o filename
                                \o <<"#center)">>
                /\ frag.assets = {[name |-> filename, data |-> "image"]}
            /\ (~frag.raised /\ frag.text = <<>>) =>
                (url = <<>> /\ frag.assets = {})

\* ---------------------------------------------------------------- SpecPage
\* Kinds of block of the trees handed to render_page: a numbered item with
\* text (N) and without (n), a bulleted item with text (B), a paragraph
\* without text (p), a divider (D).  The text of a block is its identifier.
PageKinds == {"N", "n", "B", "p", "D"}
ChildKinds == {"N", "p"}

KindType(k) ==
    CASE k \in {"N", "n"} -> "numbered_list_item"
      [] k = "B" -> "bulleted_list_item"
      [] k = "p" -> "paragraph"
      [] k = "D" -> "divider"

KindBlock(id, k, children) ==
    Block(id, KindType(k),
          TextContent(IF k \in {"N", "B"}
                      THEN <<Run(<<id>>, NoAnnotations, <<>>)>> ELSE <<>>),
          children)

\* The child lists of block pid: 1..MaxKids children, the first of which may
\* have one numbered child of its own.
ChildLists(pid) ==
    UNION {
      {[j \in 1..n |->
          KindBlock(pid \o "." \o ToString(j), ks[j],
                    IF j = 1 /\ g
                    THEN <<KindBlock(pid \o ".1.1", "N", <<>>)>> ELSE <<>>)] :
        ks \in [1..n -> ChildKinds], g \in BOOLEAN} :
      n \in 1..MaxKids}

TopId(i) == "b" \o ToString(i)

\* A sibling list of kinds ks in which block q, if any, has the children cl.
PageInput(ks, q, cl) ==
    [i \in 1..Len(ks) |-> KindBlock(TopId(i), ks[i], IF i = q THEN cl ELSE <<>>)]

InitPage ==
    /\ phase = "input"
    /\ \E n \in 0..MaxSibs : \E ks \in [1..n -> PageKinds] :
          \/ blocks = PageInput(ks, 0, <<>>)
          \/ \E q \in 1..n : \E cl \in ChildLists(TopId(q)) :
                blocks = PageInput(ks, q, cl)
    /\ io = NoIO
    /\ page = NoResult
    /\ block = NoBlock
    /\ depth = 0
    /\ index = 0
    /\ frag = NoResult
    /\ FetchUnused

ApplyRenderPage ==
    /\ phase = "input"
    /\ phase' = "applied"
    /\ page' = render_page(blocks, 0, io)
    /\ UNCHANGED <<block, depth, index, io, frag, blocks>>
    /\ UNCHANGED fetchVars
    /\ UNCHANGED poolVars

NextPage == ApplyRenderPage

SpecPage == InitPage /\ [][NextPage]_vars

\* Every sibling list of a tree, with its depth.
RECURSIVE SiblingLists(_, _)
SiblingLists(bs, d) ==
    {<<bs, d>>} \cup
    UNION {SiblingLists(bs[i].children, d + 1) :
            i \in {j \in 1..Len(bs) : bs[j].children # <<>>}}

\* 1 plus the number of numbered items that immediately precede bs[i].
ConsecutiveIndex(bs, i) ==
    LET others == {j \in 1..(i - 1) : bs[j].type # "numbered_list_item"}
    IN  i - (IF others = {} THEN 0 ELSE Max(others))

\* C2: in every sibling list, the index printed for a numbered item is 1 plus
\* the number of numbered siblings that immediately precede it: a sibling of
\* another type resets the count, also one with an empty fragment, and the
\* children rendered in between leave the count of the parent's list alone.
C2_NumberedIndex ==
    phase = "applied" =>
        \A ld \in SiblingLists(blocks, 0) :
            LET bs == ld[1]
                d == ld[2]
            IN  \A i \in 1..Len(bs) :
                  (bs[i].type = "numbered_list_item"
                      /\ bs[i].content.rich_text # <<>>) =>
                    /\ IsInfix(<<"\n", "\n">> \o Tabs(d)
                                 \o <<ToString(ConsecutiveIndex(bs, i)), ". ",
                                      bs[i].id>>,
                               page.text)
                    /\ Cardinality({k \in 1..Len(page.text) :
                                      page.text[k] = bs[i].id}) = 1

C2_Witness ==
    /\ phase = "applied"
    /\ Len(blocks) = 4
    /\ [i \in 1..4 |-> blocks[i].type] =
         <<"numbered_list_item", "numbered_list_item", "bulleted_list_item",
           "numbered_list_item">>
    /\ Len(blocks[1].children) = 2
    /\ blocks[1].children[1].type = "numbered_list_item"
    /\ blocks[1].children[2].type = "numbered_list_item"
    /\ IsInfix(<<"\n", "\n", "\t", "2", ". ", "b1.2", "\n", "\n", "2", ". ", "b2",
                 "\n", "\n", "- ", "b3", "\n", "\n", "1", ". ", "b4">>, page.text)

\* The blocks of a tree in pre-order, each with its depth and the counter of
\* its sibling list.
RECURSIVE PreOrder(_, _)
PreOrder(bs, d) ==
    Flatten([i \in 1..Len(bs) |->
        <<[b |-> bs[i], d |-> d,
           n |-> IF bs[i].type = "numbered_list_item"
                 THEN ConsecutiveIndex(bs, i) ELSE 0]>>
        \o PreOrder(bs[i].children, d + 1)])

\* C9: the page is the fragments of all blocks in pre-order, the children of
\* every block being rendered at depth + 1 whatever the parent's type and
\* also when the parent's own fragment is empty.
C9_ChildrenPreOrder ==
    phase = "applied" =>
        LET nodes == PreOrder(blocks, 0)
            Frag(x) == parse_block_type(x.b, x.n, x.d, io).text
        IN  page.text =
              Flatten([k \in 1..Len(nodes) |->
                  IF Frag(nodes[k]) = <<>> THEN <<>>
                  ELSE <<"\n", "\n">> \o Frag(nodes[k])])

C9_Witness ==
    /\ phase = "applied"
    /\ Len(blocks) = 2
    /\ blocks[1].type = "paragraph"
    /\ blocks[1].content.rich_text = <<>>
    /\ Len(blocks[1].children) = 2
    /\ blocks[1].children[1].children # <<>>
    /\ page.text = <<"\n", "\n", "\t", "1", ". ", "b1.1",
                     "\n", "\n", "\t", "\t", "1", ". ", "b1.1.1",
                     "\n", "\n", "\t", "2", ". ", "b1.2",
                     "\n", "\n", "- ", "b2">>

\* ---------------------------------------------------------------- SpecPool
\* The main program (lines 176-179) and the worker pool.  Pool.map is the
\* standard library's: it cuts the items into chunks of
\* ceil(len / (4 * processes)), a worker runs the items of a chunk one after
\* the other and an exception ends the chunk, and map returns (or raises the
\* first exception) once every chunk has ended.
MaxThreads == 3

thread_count(cpu_count) == IF cpu_count < MaxThreads THEN cpu_count ELSE MaxThreads

pool_chunksize(n, processes) ==
    LET q == n \div (processes * 4)
        r == n % (processes * 4)
    IN  IF n = 0 THEN 0 ELSE IF r # 0 THEN q + 1 ELSE q

pool_chunks(items, size) ==
    IF size = 0 THEN <<>>
    ELSE [k \in 1..((Len(items) + size - 1) \div size) |->
            SubSeq(items, (k - 1) * size + 1,
                   IF k * size < Len(items) THEN k * size ELSE Len(items))]

\* Both calls of a fetch loop run on, without suspending, up to their next
\* request.
RECURSIVE RunLocal(_, _)
RunLocal(t, hugo_on) ==
    IF t.status = "run" /\ Top(t).pc = "loop" THEN RunLocal(DoLoop(t, hugo_on), hugo_on)
    ELSE IF t.status = "run" /\ Top(t).pc = "more" THEN RunLocal(DoMore(t), hugo_on)
    ELSE t

\* Whether rendering the blocks downloads an image.
RECURSIVE DownloadsImage(_)
DownloadsImage(bs) ==
    \E i \in 1..Len(bs) :
        \/ bs[i].type = "image" /\ bs[i].content.file.url # <<>>
        \/ DownloadsImage(bs[i].children)

\* The remote of SpecPool: the database lists n pages, three to a listing
\* page, the odd ones published; page 1 holds a paragraph and, on a second
\* page of blocks, an image; every other page holds one paragraph.
PoolBlockId(i, k) == "b" \o ToString(i) \o "." \o ToString(k)

PoolParagraph(i, k) ==
    Item(PoolBlockId(i, k), "paragraph", FALSE,
         TextContent(<<Run(<<PoolBlockId(i, k)>>, NoAnnotations, <<>>)>>))

PoolImage(i, k) ==
    Item(PoolBlockId(i, k), "image", FALSE,
         Content(<<>>, FALSE, <<>>, FileUrl, <<>>))

PoolRemote(n) ==
    [id \in {Database} \cup {PageId(i) : i \in 1..n} |->
        IF id = Database
        THEN Paged([i \in 1..n |-> PageItem(i, i % 2 = 1)],
                   IF n <= 3 THEN <<n>> ELSE <<3, n - 3>>)
        ELSE LET i == CHOOSE i \in 1..n : PageId(i) = id
             IN  IF i = 1 THEN <<<<PoolParagraph(1, 1)>>, <<PoolImage(1, 2)>>>>
                 ELSE <<<<PoolParagraph(i, 1)>>>>]

IdleWorker == [chunk |-> <<>>, t |-> Idle]

InitPool ==
    /\ RenderUnused
    /\ cpus \in 1..MaxCpus
    /\ hugo \in BOOLEAN
    /\ \E n \in 0..PoolPages : remote = PoolRemote(n)
    /\ call = StartCall("query_db", Database)
    /\ faults = 0
    /\ main = [pc |-> "query_db", pages |-> <<>>, left |-> 0, success |-> TRUE]
    /\ tasks = <<>>
    /\ workers = <<>>
    /\ content_dir = {}
    /\ static_dir = {}
    /\ failed = {}

\* pages = query_db(args.db) (line 176): one request of the listing loop and
\* what follows it up to the next request.
MainQueryDb ==
    /\ main.pc = "query_db"
    /\ call.status = "run"
    /\ \E outcome \in {"ok", "status", "raise"} :
         /\ outcome # "ok" => faults < MaxFaults
         /\ faults' = IF outcome = "ok" THEN faults ELSE faults + 1
         /\ call' = RunLocal(DoFetch(call, remote, outcome), hugo)
    /\ main' = CASE call'.status = "done" ->
                      [main EXCEPT !.pc = "pool", !.pages = call'.ret]
                 [] call'.status = "raised" -> [main EXCEPT !.pc = "crashed"]
                 [] OTHER -> main
    /\ UNCHANGED <<remote, hugo, cpus, tasks, workers, content_dir, static_dir,
                   failed>>
    /\ UNCHANGED renderVars

\* with Pool(thread_count) as p: p.map(multi_thread, pages.items())
\* (lines 177-179): the pool is started and the chunks are queued.
StartPool ==
    /\ main.pc = "pool"
    /\ LET processes == thread_count(cpus)
           chunks == pool_chunks(main.pages,
                                 pool_chunksize(Len(main.pages), processes))
       IN  /\ workers' = [w \in 1..processes |-> IdleWorker]
           /\ tasks' = chunks
           /\ main' = [main EXCEPT !.pc = "map", !.left = Len(chunks)]
    /\ UNCHANGED <<remote, hugo, call, faults, cpus, content_dir, static_dir,
                   failed>>
    /\ UNCHANGED renderVars

\* An idle worker takes the next chunk and calls multi_thread on its first
\* item: blocks = query_blocks(page_id) (lines 145-146).
WorkerTake(w) ==
    /\ main.pc = "map"
    /\ workers[w].chunk = <<>>
    /\ tasks # <<>>
    /\ workers' = [workers EXCEPT ![w] =
            [chunk |-> Head(tasks),
             t |-> StartCall("query_blocks", Head(tasks)[1].key)]]
    /\ tasks' = Tail(tasks)
    /\ UNCHANGED <<remote, hugo, call, faults, cpus, main, content_dir,
                   static_dir, failed>>
    /\ UNCHANGED renderVars

\* The chunk of worker w ends with an exception: its other items are not run.
ChunkFails(w) ==
    /\ workers' = [workers EXCEPT ![w] = IdleWorker]
    /\ main' = [main EXCEPT !.left = main.left - 1, !.success = FALSE]

\* multi_thread returned for the first item of the chunk of worker w: the
\* worker goes on with the next item, or the chunk ends.
ItemDone(w) ==
    LET rest == Tail(workers[w].chunk)
    IN  IF rest = <<>>
        THEN /\ workers' = [workers EXCEPT ![w] = IdleWorker]
             /\ main' = [main EXCEPT !.left = main.left - 1]
        ELSE /\ workers' = [workers EXCEPT ![w] =
                    [chunk |-> rest, t |-> StartCall("query_blocks", rest[1].key)]]
             /\ main' = main

\* One request of query_blocks in worker w (line 146) and what follows it up
\* to the next request.
WorkerFetch(w) ==
    /\ main.pc = "map"
    /\ workers[w].chunk # <<>>
    /\ workers[w].t.status = "run"
    /\ \E outcome \in {"ok", "status", "raise"} :
         LET t2 == RunLocal(DoFetch(workers[w].t, remote, outcome), hugo)
             page_id == workers[w].chunk[1].key
         IN  /\ outcome # "ok" => faults < MaxFaults
             /\ faults' = IF outcome = "ok" THEN faults ELSE faults + 1
             /\ failed' = IF outcome = "ok" THEN failed
                          ELSE failed \cup {[page |-> page_id, kind |-> outcome]}
             /\ IF t2.status = "raised" THEN ChunkFails(w)
                ELSE /\ workers' = [workers EXCEPT ![w].t = t2]
                     /\ main' = main
    /\ UNCHANGED <<remote, hugo, call, cpus, tasks, content_dir, static_dir>>
    /\ UNCHANGED renderVars

\* content = render_page(blocks), then the file is opened and written
\* (lines 147-150).
WorkerRender(w) ==
    /\ main.pc = "map"
    /\ workers[w].chunk # <<>>
    /\ workers[w].t.status = "done"
    /\ \E net \in IOs :
         LET page_id == workers[w].chunk[1].key
             frontmatter == workers[w].chunk[1].val
             tree == workers[w].t.ret
             r == render_page(tree, 0, net)
             outcome == IF net.dl # "ok" THEN net.dl ELSE net.fs
         IN  /\ net # NoIO => (DownloadsImage(tree) /\ faults < MaxFaults)
             /\ faults' = IF net = NoIO THEN faults ELSE faults + 1
             /\ failed' = IF net = NoIO THEN failed
                          ELSE failed \cup {[page |-> page_id, kind |-> outcome]}
             /\ static_dir' = static_dir \cup r.assets
             /\ IF r.raised
                THEN /\ ChunkFails(w)
                     /\ content_dir' = content_dir
                ELSE /\ ItemDone(w)
                     /\ content_dir' =
                          {f \in content_dir : f.name # <<page_id, ".md">>}
                          \cup {[name |-> <<page_id, ".md">>,
                                 text |-> frontmatter \o r.text]}
    /\ UNCHANGED <<remote, hugo, call, cpus, tasks>>
    /\ UNCHANGED renderVars

\* Every chunk has ended: map returns, or raises the first exception, and the
\* program ends.
MapReturns ==
    /\ main.pc = "map"
    /\ main.left = 0
    /\ main' = [main EXCEPT !.pc = IF main.success THEN "exited" ELSE "raised"]
    /\ UNCHANGED <<remote, hugo, call, faults, cpus, tasks, workers, content_dir,
                   static_dir, failed>>
    /\ UNCHANGED renderVars

Take == \E w \in DOMAIN workers : WorkerTake(w)
FetchBlocks == \E w \in DOMAIN workers : WorkerFetch(w)
RenderAndWrite == \E w \in DOMAIN workers : WorkerRender(w)

NextPool ==
    MainQueryDb \/ StartPool \/ Take \/ FetchBlocks \/ RenderAndWrite \/ MapReturns

SpecPool == InitPool /\ [][NextPool]_vars

Written(page_id) == \E f \in content_dir : f.name = <<page_id, ".md">>

\* C3: when the pipeline of one listed page fails, every other listed page is
\* still fetched, rendered and written to its own output file.
C3_FailureIsolated ==
    main.pc \in {"exited", "raised"} =>
        \A k \in 1..Len(main.pages) :
            \/ Written(main.pages[k].key)
            \/ \E f \in failed : f.page = main.pages[k].key

\* C4: a page whose pipeline fails while its blocks are fetched or rendered
\* leaves no output file.
C4_NoFileForFailedPage ==
    \A f \in failed : ~Written(f.page)

\* The part of C4 the code keeps: a page whose fetch, download or asset write
\* raises has no output file.
RaisedPageLeavesNoFile ==
    \A f \in failed : f.kind = "raise" => ~Written(f.page)

=============================================================================
